---- MODULE Spec2Model ----
(***************************************************************************)
(* A model of spoticamper.py: one script invocation loads state.json,      *)
(* optionally imports a Spotify playlist, searches Bandcamp for every      *)
(* album not yet searched, marks the albums found in the user's Bandcamp   *)
(* purchases, prints reports, and dumps the document back to state.json.   *)
(*                                                                         *)
(* A Python dict is modelled as a function plus the insertion order of its *)
(* keys (iteration order of .values()).  A parsed URL is a record of its   *)
(* components; the string the script stores or compares is built from the  *)
(* components as the script's f-string builds it.                          *)
(***************************************************************************)
EXTENDS Naturals, Sequences, FiniteSets, TLC

\* ------------------------------------------------------------------ bounds
MaxTracks == 2      \* longest playlist returned by the playlist request
MaxLinks == 2       \* longest list of .item-link hrefs on the purchase page

\* ------------------------------------------------------- the outside world
\* Track entries the playlist request may return: items[i].track
Tracks ==
    { [album |-> [id |-> "1", name |-> "X"], artists |-> <<"A", "B">>],
      [album |-> [id |-> "1", name |-> "X"], artists |-> <<"B">>],
      [album |-> [id |-> "2", name |-> "X"], artists |-> <<"A">>] }

\* hrefs of the first search result, as urllib.parse.urlparse splits them
Hrefs ==
    { [scheme |-> "https", netloc |-> "a.bandcamp.com", path |-> "/album/x", query |-> ""],
      [scheme |-> "https", netloc |-> "a.bandcamp.com", path |-> "/album/x", query |-> "?from=search"],
      [scheme |-> "http", netloc |-> "a.bandcamp.com", path |-> "/album/y", query |-> ""] }

\* hrefs of the .item-link elements of the purchase page (raw strings)
Links == { "https://a.bandcamp.com/album/x", "https://a.bandcamp.com/album/y" }

SeqsUpTo(S, n) == UNION { [1..k -> S] : k \in 0..n }

Playlists == SeqsUpTo(Tracks, MaxTracks)
PurchaseLists == SeqsUpTo(Links, MaxLinks)
\* soup.select(".searchresult"): only the first result is read
SearchResults == { <<>> } \cup { <<h>> : h \in Hrefs }
CliArgs == [playlist : BOOLEAN, unpurchased : BOOLEAN, stats : BOOLEAN,
            refresh_purchased : BOOLEAN]

\* ------------------------------------------------------------ the document
EmptyDict == <<>>

\* load_state's fresh document
NewState == [albums |-> EmptyDict, order |-> <<>>, bandcamp_url_to_album_key |-> EmptyDict]

\* state.json: absent (open raises FileNotFoundError) or holding one document
NoFile == <<>>

load_state(json) == IF json = NoFile THEN NewState ELSE json[1]

dump_state(document) == <<document>>

AlbumKey(album) == album.name \o ":" \o album.id

\* NewAlbum taking the search term from the last artist of the track
NewAlbum_LastArtist(track) ==
    [key |-> AlbumKey(track.album),
     id |-> track.album.id,
     name |-> track.album.name,
     artists |-> track.artists,
     purchased |-> FALSE,
     bandcamp_search_term |->
        track.artists[Len(track.artists)] \o " " \o track.album.name,
     bandcamp_url_found |-> FALSE,
     bandcamp_url_searched |-> FALSE,
     bandcamp_url |-> ""]

NewAlbum(track) ==
    [key |-> AlbumKey(track.album),
     id |-> track.album.id,
     name |-> track.album.name,
     artists |-> track.artists,
     purchased |-> FALSE,
     bandcamp_search_term |-> track.artists[1] \o " " \o track.album.name,
     bandcamp_url_found |-> FALSE,
     bandcamp_url_searched |-> FALSE,
     bandcamp_url |-> ""]

\* state["albums"][album_key] = record: a new key is appended to the dict's
\* order, an existing key keeps its place
SetAlbum(state, album_key, record) ==
    [state EXCEPT
        !.albums = (album_key :> record) @@ state.albums,
        !.order = IF album_key \in DOMAIN state.albums THEN state.order
                  ELSE Append(state.order, album_key)]

\* RegisterAlbums without the test `album_key in state["albums"]`: every track
\* writes a fresh record under its album's key
RECURSIVE RegisterAlbums_NoKeyTest(_, _, _)
RegisterAlbums_NoKeyTest(state, playlist, registered_album_count) ==
    IF playlist = <<>>
    THEN [state |-> state, registered_album_count |-> registered_album_count]
    ELSE LET track == Head(playlist)
             album_key == AlbumKey(track.album)
         IN  RegisterAlbums_NoKeyTest(SetAlbum(state, album_key, NewAlbum(track)),
                                      Tail(playlist), registered_album_count + 1)

\* the loop over the playlist: registers each album not yet in the store
RECURSIVE RegisterAlbums(_, _, _)
RegisterAlbums(state, playlist, registered_album_count) ==
    IF playlist = <<>>
    THEN [state |-> state, registered_album_count |-> registered_album_count]
    ELSE LET track == Head(playlist)
             album_key == AlbumKey(track.album)
         IN  IF album_key \notin DOMAIN state.albums
             THEN RegisterAlbums(SetAlbum(state, album_key, NewAlbum(track)),
                                 Tail(playlist), registered_album_count + 1)
             ELSE RegisterAlbums(state, Tail(playlist), registered_album_count)

\* the value search_bandcamp_album_url returns for a page of search results
search_bandcamp_album_url(search_results) ==
    IF Len(search_results) # 0
    THEN "https://" \o search_results[1].netloc \o search_results[1].path
    ELSE ""

\* the resolver loop without its test of bandcamp_url_searched
Unsearched_All(state) == state.order

\* the resolver loop with its test inverted: `if album["bandcamp_url_searched"]`
Unsearched_Inverted(state) ==
    SelectSeq(state.order, LAMBDA k : state.albums[k].bandcamp_url_searched)

\* keys of the albums the resolver loop has still to search, in dict order
Unsearched(state) ==
    SelectSeq(state.order, LAMBDA k : ~state.albums[k].bandcamp_url_searched)

\* ResolveAlbum without the assignment album["bandcamp_url_searched"] = True
ResolveAlbum_SearchedNotSet(state, album_key, bandcamp_url) ==
    LET album == state.albums[album_key]
        resolved == IF bandcamp_url # ""
                    THEN [album EXCEPT !.bandcamp_url_found = TRUE,
                                       !.bandcamp_url = bandcamp_url]
                    ELSE album
        indexed == IF bandcamp_url # ""
                   THEN [state EXCEPT !.bandcamp_url_to_album_key =
                            (bandcamp_url :> album.key) @@ @]
                   ELSE state
    IN  SetAlbum(indexed, album.key, resolved)

\* ResolveAlbum writing the reverse-index entry under album["id"] instead of
\* album["key"]
ResolveAlbum_IndexById(state, album_key, bandcamp_url) ==
    LET album == state.albums[album_key]
        searched == [album EXCEPT !.bandcamp_url_searched = TRUE]
        resolved == IF bandcamp_url # ""
                    THEN [searched EXCEPT !.bandcamp_url_found = TRUE,
                                          !.bandcamp_url = bandcamp_url]
                    ELSE searched
        indexed == IF bandcamp_url # ""
                   THEN [state EXCEPT !.bandcamp_url_to_album_key =
                            (bandcamp_url :> album.id) @@ @]
                   ELSE state
    IN  SetAlbum(indexed, album.key, resolved)

\* one iteration of the resolver loop for an unsearched album
ResolveAlbum(state, album_key, bandcamp_url) ==
    LET album == state.albums[album_key]
        searched == [album EXCEPT !.bandcamp_url_searched = TRUE]
        resolved == IF bandcamp_url # ""
                    THEN [searched EXCEPT !.bandcamp_url_found = TRUE,
                                          !.bandcamp_url = bandcamp_url]
                    ELSE searched
        indexed == IF bandcamp_url # ""
                   THEN [state EXCEPT !.bandcamp_url_to_album_key =
                            (bandcamp_url :> album.key) @@ @]
                   ELSE state
    IN  SetAlbum(indexed, album.key, resolved)

\* MarkPurchased recomputing every purchased flag from the fetched links
\* instead of only setting it
MarkPurchased_Recompute(state, bandcamp_purchases, new_purchase_count) ==
    LET index == state.bandcamp_url_to_album_key
        listed == { index[url] : url \in { bandcamp_purchases[i] : i \in DOMAIN bandcamp_purchases }
                                          \cap DOMAIN index }
    IN  [state |-> [state EXCEPT !.albums =
                        [k \in DOMAIN state.albums |->
                            [state.albums[k] EXCEPT !.purchased = (k \in listed)]]],
         new_purchase_count |-> new_purchase_count
            + Cardinality({ k \in listed : ~state.albums[k].purchased })]

\* MarkPurchased without the test of the purchased flag: every link found in
\* the reverse index is counted
RECURSIVE MarkPurchased_NoFlagTest(_, _, _)
MarkPurchased_NoFlagTest(state, bandcamp_purchases, new_purchase_count) ==
    IF bandcamp_purchases = <<>>
    THEN [state |-> state, new_purchase_count |-> new_purchase_count]
    ELSE LET url == Head(bandcamp_purchases)
             rest == Tail(bandcamp_purchases)
         IN  IF url \in DOMAIN state.bandcamp_url_to_album_key
             THEN LET k == state.bandcamp_url_to_album_key[url]
                  IN  MarkPurchased_NoFlagTest(
                          [state EXCEPT !.albums[k].purchased = TRUE],
                          rest, new_purchase_count + 1)
             ELSE MarkPurchased_NoFlagTest(state, rest, new_purchase_count)

\* the loop of bandcamp_refresh_purchased over the fetched links
RECURSIVE MarkPurchased(_, _, _)
MarkPurchased(state, bandcamp_purchases, new_purchase_count) ==
    IF bandcamp_purchases = <<>>
    THEN [state |-> state, new_purchase_count |-> new_purchase_count]
    ELSE LET url == Head(bandcamp_purchases)
             rest == Tail(bandcamp_purchases)
         IN  IF url \in DOMAIN state.bandcamp_url_to_album_key
             THEN LET k == state.bandcamp_url_to_album_key[url]
                  IN  IF ~state.albums[k].purchased
                      THEN MarkPurchased(
                              [state EXCEPT !.albums[k].purchased = TRUE],
                              rest, new_purchase_count + 1)
                      ELSE MarkPurchased(state, rest, new_purchase_count)
             ELSE MarkPurchased(state, rest, new_purchase_count)

\* print_unpurchased without the test of bandcamp_url_found
UnpurchasedUrls_NoFoundTest(state) ==
    LET listed == SelectSeq(state.order, LAMBDA k : ~state.albums[k].purchased)
    IN  [i \in 1..Len(listed) |-> state.albums[listed[i]].bandcamp_url]

\* the URLs print_unpurchased prints, in dict order
UnpurchasedUrls(state) ==
    LET listed == SelectSeq(state.order,
                    LAMBDA k : ~state.albums[k].purchased
                               /\ state.albums[k].bandcamp_url_found)
    IN  [i \in 1..Len(listed) |-> state.albums[listed[i]].bandcamp_url]

\* the counts print_stats accumulates; a percentage is the fraction it
\* multiplies by 100, kept as numerator and denominator
StatsCounts(state) ==
    LET album_count == Len(state.order)
        purchased_count ==
            Cardinality({ k \in DOMAIN state.albums : state.albums[k].purchased })
        url_found_count ==
            Cardinality({ k \in DOMAIN state.albums : state.albums[k].bandcamp_url_found })
        url_searched_count ==
            Cardinality({ k \in DOMAIN state.albums : state.albums[k].bandcamp_url_searched })
    IN  [album_count |-> album_count,
         purchased_count |-> purchased_count,
         url_found_count |-> url_found_count,
         url_not_found_count |-> album_count - url_found_count,
         unsearched_count |-> album_count - url_searched_count,
         purchased_percent |-> <<purchased_count * 100, album_count>>,
         not_found_percent |-> <<(album_count - url_found_count) * 100, album_count>>]

\* ---------------------------------------------------------------- the run
VARIABLES
    file,                   \* state.json: NoFile or the document last dumped
    state,                  \* the module-level variable state
    cli_args,               \* the module-level variable cli_args
    pc,                     \* where the script is
    error,                  \* the uncaught exception that ended the run, or ""
    registered_album_count, \* the count pull_spotify_playlist prints
    new_purchase_count,     \* the count bandcamp_refresh_purchased prints
    bandcamp_purchases,     \* the links the last refresh of this run fetched
    same_purchases,         \* the last refresh fetched the list the one before it did
    refreshes,              \* calls of bandcamp_refresh_purchased in this run
    playlist,               \* the playlist pull_spotify_playlist fetched
    request,                \* the album the last step issued a search request for, or ""
    queried,                \* albums a search request was issued for, over all runs
    printed,                \* the lines print_unpurchased printed in this run
    stats,                  \* what print_stats computed in this run, or <<>>
    environ,                \* the environment variables set for this run
    loaded,                 \* the document load_state returned to this run
    log                     \* the requests issued and steps taken by this run

vars == <<file, state, cli_args, pc, error, registered_album_count,
          new_purchase_count, bandcamp_purchases, same_purchases, refreshes,
          playlist, request, queried, printed, stats, environ, loaded, log>>

Keys == { AlbumKey(t.album) : t \in Tracks }

NoArgs == [playlist |-> FALSE, unpurchased |-> FALSE, stats |-> FALSE,
           refresh_purchased |-> FALSE]

\* the chain of ifs with the -r refresh placed before the two reports
Stages_RefreshBeforeReports ==
    <<"playlist", "refresh_purchased", "unpurchased", "stats", "dump">>

\* the chain of ifs at module level: the statement that runs next
Stages == <<"playlist", "unpurchased", "stats", "refresh_purchased", "dump">>

Gate(stage, args) ==
    CASE stage = "playlist" -> args.playlist
      [] stage = "unpurchased" -> args.unpurchased
      [] stage = "stats" -> args.stats
      [] stage = "refresh_purchased" -> args.refresh_purchased
      [] OTHER -> TRUE

RECURSIVE NextFrom(_, _)
NextFrom(i, args) ==
    IF i >= Len(Stages) \/ Gate(Stages[i], args) THEN Stages[i]
    ELSE NextFrom(i + 1, args)

StageIndex(stage) == CHOOSE i \in 1..Len(Stages) : Stages[i] = stage

After(stage, args) == NextFrom(StageIndex(stage) + 1, args)

Stopped == pc \in {"idle", "done", "failed"}

\* os.environ[...]: the variables read before the Spotify token request and
\* before the request of the purchase page
SpotifyVars == {"SPOTIFY_APP_ID", "SPOTIFY_APP_SECRET"}
BandcampVars == {"BANDCAMP_USERNAME", "BANDCAMP_TOKEN"}
EnvVars == SpotifyVars \cup BandcampVars

\* an entry of the log: a network request or a step of the script, with the
\* album key for a search request
Event(op, key) == [op |-> op, key |-> key]

RequestOps == {"token_request", "playlist_request", "search_request",
               "purchases_request"}

\* bandcamp_refresh_purchased is the statement that runs next
RefreshIsNext ==
    \/ pc = "resolve" /\ Unsearched(state) = <<>>
    \/ pc = "refresh_purchased"

Init ==
    /\ file = NoFile
    /\ state = NewState
    /\ cli_args = NoArgs
    /\ pc = "idle"
    /\ error = ""
    /\ registered_album_count = 0
    /\ new_purchase_count = 0
    /\ bandcamp_purchases = <<>>
    /\ same_purchases = FALSE
    /\ refreshes = 0
    /\ playlist = <<>>
    /\ request = ""
    /\ queried = {}
    /\ printed = <<>>
    /\ stats = <<>>
    /\ environ = EnvVars
    /\ loaded = NewState
    /\ log = <<>>

\* a new invocation: load_state(), get_cli_args()
Start ==
    /\ pc = "idle"
    /\ \E args \in CliArgs :
        /\ cli_args' = args
        /\ pc' = NextFrom(1, args)
    /\ state' = load_state(file)
    /\ error' = ""
    /\ registered_album_count' = 0
    /\ new_purchase_count' = 0
    /\ bandcamp_purchases' = <<>>
    /\ same_purchases' = FALSE
    /\ refreshes' = 0
    /\ playlist' = <<>>
    /\ request' = ""
    /\ printed' = <<>>
    /\ stats' = <<>>
    /\ environ' \in SUBSET EnvVars
    /\ loaded' = load_state(file)
    /\ log' = <<Event("load", "")>>
    /\ UNCHANGED <<file, queried>>

\* pull_spotify_playlist up to the print of the registered count
Import ==
    /\ pc = "playlist"
    /\ SpotifyVars \subseteq environ
    /\ log' = log \o <<Event("token_request", ""), Event("playlist_request", ""),
                        Event("import", "")>>
    /\ \E fetched \in Playlists :
        LET r == RegisterAlbums(state, fetched, 0)
        IN  /\ playlist' = fetched
            /\ state' = r.state
            /\ registered_album_count' = r.registered_album_count
    /\ pc' = "resolve"
    /\ UNCHANGED <<file, cli_args, error, new_purchase_count, bandcamp_purchases,
                   same_purchases, refreshes, request, queried, printed, stats,
                   environ, loaded>>

\* one iteration of the resolver loop: the next unsearched album is searched
Search ==
    /\ pc = "resolve"
    /\ Unsearched(state) # <<>>
    /\ LET album_key == Head(Unsearched(state))
       IN  /\ \E search_results \in SearchResults :
                state' = ResolveAlbum(state, album_key,
                                      search_bandcamp_album_url(search_results))
           /\ request' = album_key
           /\ queried' = queried \cup {album_key}
           /\ log' = Append(log, Event("search_request", album_key))
    /\ UNCHANGED <<file, cli_args, pc, error, registered_album_count,
                   new_purchase_count, bandcamp_purchases, same_purchases,
                   refreshes, playlist, printed, stats, environ, loaded>>

\* bandcamp_refresh_purchased, called at the end of pull_spotify_playlist and
\* for the flag -r
Refresh ==
    /\ RefreshIsNext
    /\ BandcampVars \subseteq environ
    /\ log' = log \o <<Event("purchases_request", ""), Event("refresh", "")>>
    /\ \E fetched \in PurchaseLists :
        LET r == MarkPurchased(state, fetched, 0)
        IN  /\ bandcamp_purchases' = fetched
            /\ same_purchases' = (refreshes > 0 /\ fetched = bandcamp_purchases)
            /\ state' = r.state
            /\ new_purchase_count' = r.new_purchase_count
    /\ refreshes' = refreshes + 1
    /\ pc' = After(IF pc = "resolve" THEN "playlist" ELSE pc, cli_args)
    /\ playlist' = <<>>
    /\ request' = ""
    /\ UNCHANGED <<file, cli_args, error, registered_album_count, queried,
                   printed, stats, environ, loaded>>

print_unpurchased ==
    /\ pc = "unpurchased"
    /\ printed' = UnpurchasedUrls(state)
    /\ pc' = After(pc, cli_args)
    /\ log' = Append(log, Event("unpurchased", ""))
    /\ UNCHANGED <<file, state, cli_args, error, registered_album_count,
                   new_purchase_count, bandcamp_purchases, same_purchases,
                   refreshes, playlist, request, queried, stats, environ, loaded>>

\* print_stats: the two percentages divide by album_count, so on an empty
\* store the division raises ZeroDivisionError after the counts are printed
print_stats ==
    /\ pc = "stats"
    /\ stats' = StatsCounts(state)
    /\ IF StatsCounts(state).album_count = 0
       THEN pc' = "failed" /\ error' = "ZeroDivisionError"
       ELSE pc' = After(pc, cli_args) /\ error' = error
    /\ log' = Append(log, Event("stats", ""))
    /\ UNCHANGED <<file, state, cli_args, registered_album_count,
                   new_purchase_count, bandcamp_purchases, same_purchases,
                   refreshes, playlist, request, queried, printed, environ,
                   loaded>>

\* the requests issued up to and including the one that raises
FailingRequests ==
    IF pc = "playlist"
    THEN { <<Event("token_request", "")>>,
           <<Event("token_request", ""), Event("playlist_request", "")>> }
    ELSE IF RefreshIsNext
    THEN { <<Event("purchases_request", "")>> }
    ELSE { <<Event("search_request", Head(Unsearched(state)))>> }

\* RequestFails with the document dumped on the way out (a dump_state in a
\* finally clause)
RequestFails_DumpsState ==
    /\ pc \in {"playlist", "resolve", "refresh_purchased"}
    /\ pc = "playlist" => SpotifyVars \subseteq environ
    /\ RefreshIsNext => BandcampVars \subseteq environ
    /\ \E issued \in FailingRequests : log' = log \o issued
    /\ pc' = "failed"
    /\ error' = "RequestException"
    /\ request' = ""
    /\ file' = dump_state(state)
    /\ UNCHANGED <<state, cli_args, registered_album_count,
                   new_purchase_count, bandcamp_purchases, same_purchases,
                   refreshes, playlist, queried, printed, stats, environ, loaded>>

\* a request raises: the exception is not caught and the script ends
\* without reaching dump_state
RequestFails ==
    /\ pc \in {"playlist", "resolve", "refresh_purchased"}
    /\ pc = "playlist" => SpotifyVars \subseteq environ
    /\ RefreshIsNext => BandcampVars \subseteq environ
    /\ \E issued \in FailingRequests : log' = log \o issued
    /\ pc' = "failed"
    /\ error' = "RequestException"
    /\ request' = ""
    /\ UNCHANGED <<file, state, cli_args, registered_album_count,
                   new_purchase_count, bandcamp_purchases, same_purchases,
                   refreshes, playlist, queried, printed, stats, environ, loaded>>

\* os.environ[...] raises KeyError for a variable that is not set: in
\* get_spotify_auth_token before the token request, in get_bandcamp_purchases
\* before the request of the purchase page
KeyErrorRaised ==
    /\ \/ pc = "playlist" /\ ~(SpotifyVars \subseteq environ)
       \/ RefreshIsNext /\ ~(BandcampVars \subseteq environ)
    /\ pc' = "failed"
    /\ error' = "KeyError"
    /\ request' = ""
    /\ UNCHANGED <<file, state, cli_args, registered_album_count,
                   new_purchase_count, bandcamp_purchases, same_purchases,
                   refreshes, playlist, queried, printed, stats, environ, loaded,
                   log>>

Dump ==
    /\ pc = "dump"
    /\ file' = dump_state(state)
    /\ pc' = "done"
    /\ log' = Append(log, Event("save", ""))
    /\ UNCHANGED <<state, cli_args, error, registered_album_count,
                   new_purchase_count, bandcamp_purchases, same_purchases,
                   refreshes, playlist, request, queried, printed, stats, environ,
                   loaded>>

\* the process ends, after dump_state or on the uncaught exception: nothing
\* of it remains but state.json
Exit ==
    /\ pc \in {"done", "failed"}
    /\ pc' = "idle"
    /\ state' = NewState
    /\ cli_args' = NoArgs
    /\ error' = ""
    /\ registered_album_count' = 0
    /\ new_purchase_count' = 0
    /\ bandcamp_purchases' = <<>>
    /\ same_purchases' = FALSE
    /\ refreshes' = 0
    /\ playlist' = <<>>
    /\ request' = ""
    /\ printed' = <<>>
    /\ stats' = <<>>
    /\ environ' = EnvVars
    /\ loaded' = NewState
    /\ log' = <<>>
    /\ UNCHANGED <<file, queried>>

Next ==
    \/ Start
    \/ Import
    \/ Search
    \/ Refresh
    \/ print_unpurchased
    \/ print_stats
    \/ RequestFails
    \/ KeyErrorRaised
    \/ Dump
    \/ Exit

Spec == Init /\ [][Next]_vars

\* ------------------------------------------------------------- properties
Range(s) == { s[i] : i \in DOMAIN s }

\* the document in state.json, as the next run will load it
Persisted == load_state(file)

FoundKeys(document) ==
    { k \in DOMAIN document.albums : document.albums[k].bandcamp_url_found }

\* C1: once bandcamp_refresh_purchased has completed, every album whose
\* bandcamp_url is among the fetched purchase links is purchased, also when
\* several albums resolved to the same URL.
C1_RefreshFlagsEveryListedAlbum ==
    refreshes > 0 =>
        \A k \in DOMAIN state.albums :
            state.albums[k].bandcamp_url \in Range(bandcamp_purchases)
                => state.albums[k].purchased

ReverseIndexConsistent(document) ==
    \A url \in DOMAIN document.bandcamp_url_to_album_key :
        LET k == document.bandcamp_url_to_album_key[url]
        IN  /\ k \in DOMAIN document.albums
            /\ document.albums[k].bandcamp_url = url

\* C2: in the document in memory and in the persisted one, every entry
\* (url, key) of bandcamp_url_to_album_key names an existing album whose
\* bandcamp_url is url.
C2_ReverseIndexConsistency ==
    /\ ReverseIndexConsistent(state)
    /\ ReverseIndexConsistent(Persisted)

\* C2 witness: two albums resolved to different URLs and both are indexed.
C2_Witness ==
    /\ Cardinality(DOMAIN state.bandcamp_url_to_album_key) = 2
    /\ Cardinality(FoundKeys(state)) = 2
    /\ pc = "done"

\* C3: the reverse index has as many entries as there are found albums, and
\* each found album is the value of the entry for its own bandcamp_url.
C3_OneIndexEntryPerFoundAlbum ==
    /\ Cardinality(DOMAIN state.bandcamp_url_to_album_key)
            = Cardinality(FoundKeys(state))
    /\ \A k \in FoundKeys(state) :
        /\ state.albums[k].bandcamp_url \in DOMAIN state.bandcamp_url_to_album_key
        /\ state.bandcamp_url_to_album_key[state.albums[k].bandcamp_url] = k

\* a second MarkPurchased over the same links changes nothing and counts 0
RefreshIdempotentOn(document, links) ==
    LET first == MarkPurchased(document, links, 0)
        second == MarkPurchased(first.state, links, 0)
    IN  /\ second.state = first.state
        /\ second.new_purchase_count = 0

\* C4: when the second bandcamp_refresh_purchased of a run fetches the list
\* the first one fetched (with or without duplicate links), it leaves the
\* document as the first left it and reports 0 newly purchased albums; and
\* from every document the refresh is about to run on, refreshing twice
\* with any one list does so.
C4_RefreshIdempotent ==
    [][ /\ (refreshes = 1 /\ refreshes' = 2 /\ same_purchases')
            => (state' = state /\ new_purchase_count' = 0)
        /\ RefreshIsNext'
            => \A links \in PurchaseLists : RefreshIdempotentOn(state', links)
      ]_vars

\* C4 witness: in the first run ever, the second refresh fetched the same
\* list as the first, a list with a duplicate link, and the first had
\* marked an album purchased.
C4_Witness ==
    /\ file = NoFile
    /\ refreshes = 2
    /\ same_purchases
    /\ Len(bandcamp_purchases) = 2
    /\ bandcamp_purchases[1] = bandcamp_purchases[2]
    /\ new_purchase_count = 0
    /\ \E k \in DOMAIN state.albums :
        /\ state.albums[k].purchased
        /\ state.albums[k].bandcamp_url = bandcamp_purchases[1]

Searched(document, k) ==
    k \in DOMAIN document.albums /\ document.albums[k].bandcamp_url_searched

Purchased(document, k) ==
    k \in DOMAIN document.albums /\ document.albums[k].purchased

\* a step of a run in progress (not the load that starts a run)
RunStep == ~Stopped

\* C5 as stated: over all runs, no search request is issued for an album
\* that a search request was issued for before.
C5_AtMostOneRequestEver ==
    [][ \A k \in Keys : request' = k => k \notin queried ]_vars

\* C5 amended: a search request is issued for an album only while its
\* bandcamp_url_searched is false in memory, which the request sets; the
\* flag is not set back to false within a run, nor in the persisted
\* document across runs; and an album the persisted document records as
\* searched is not queried.
C5_NoRequeryOnceSearched ==
    [][ \A k \in Keys :
          /\ request' = k
                => /\ k \in DOMAIN state.albums
                   /\ ~Searched(state, k)
                   /\ Searched(state', k)
                   /\ ~Searched(Persisted, k)
          /\ (RunStep /\ Searched(state, k)) => Searched(state', k)
          /\ Searched(Persisted, k) => Searched(Persisted', k)
      ]_vars

\* C5 witness: a resolver pass has just queried one album while the other,
\* searched and saved by an earlier run, was left alone.
C5_Witness ==
    \E k \in Keys :
        /\ request = k
        /\ ~Searched(Persisted, k)
        /\ \E other \in Keys \ {k} :
            /\ Searched(Persisted, other)
            /\ Head(state.order) = other

\* C6: within a run no step takes purchased from true to false in memory;
\* a run starts from the persisted document; and no step takes purchased
\* from true to false in the persisted document.
C6_PurchasedMonotone ==
    [][ /\ \A k \in Keys :
            /\ (RunStep /\ Purchased(state, k)) => Purchased(state', k)
            /\ Purchased(Persisted, k) => Purchased(Persisted', k)
        /\ pc = "idle" => state' = Persisted
      ]_vars

\* C6 witness: an album saved as purchased by an earlier run is in the
\* playlist this run imported, and this run reached its dump.
C6_Witness ==
    /\ pc = "dump"
    /\ cli_args.playlist /\ cli_args.refresh_purchased
    /\ \E k \in Keys :
        /\ Purchased(Persisted, k)
        /\ Purchased(state, k)
        /\ \E other \in Keys \ {k} : other \in DOMAIN state.albums
                                     /\ other \notin DOMAIN Persisted.albums

UnsearchedMeansBlank(document) ==
    \A k \in DOMAIN document.albums :
        ~document.albums[k].bandcamp_url_searched
            => /\ ~document.albums[k].bandcamp_url_found
               /\ ~document.albums[k].purchased

\* C7: in memory and in the persisted document, an album that has not been
\* searched is neither found nor purchased.
C7_UnsearchedNotFoundNotPurchased ==
    /\ UnsearchedMeansBlank(state)
    /\ UnsearchedMeansBlank(Persisted)

\* C7 witness: one album is found and purchased while another is still
\* unsearched.
C7_Witness ==
    \E k \in DOMAIN state.albums :
        /\ ~state.albums[k].bandcamp_url_searched
        /\ \E other \in DOMAIN state.albums :
            state.albums[other].purchased /\ state.albums[other].bandcamp_url_found

\* the step of pull_spotify_playlist that registers the fetched playlist
ImportStep == pc = "playlist" /\ pc' = "resolve"

PlaylistKeys(tracks) == { AlbumKey(tracks[i].album) : i \in DOMAIN tracks }

\* no earlier entry of the playlist carries the album key of entry i
FirstSighting(tracks, i) ==
    \A j \in 1..(i - 1) : AlbumKey(tracks[j].album) # AlbumKey(tracks[i].album)

Occurrences(seq, x) == Cardinality({ i \in DOMAIN seq : seq[i] = x })

\* C8: the import creates, for every playlist entry whose album key is not
\* in the store when the entry is reached, one record under that key, not
\* purchased, not searched, not found, with an empty URL and the search
\* term first artist + " " + album name; the count it reports is the number
\* of distinct new keys.
C8_ImportCreatesBlankRecords ==
    [][ ImportStep =>
        /\ \A i \in DOMAIN playlist' :
            LET track == playlist'[i]
                k == AlbumKey(track.album)
            IN  (k \notin DOMAIN state.albums /\ FirstSighting(playlist', i)) =>
                    /\ k \in DOMAIN state'.albums
                    /\ Occurrences(state'.order, k) = 1
                    /\ state'.albums[k] =
                        [key |-> k,
                         id |-> track.album.id,
                         name |-> track.album.name,
                         artists |-> track.artists,
                         purchased |-> FALSE,
                         bandcamp_search_term |->
                            track.artists[1] \o " " \o track.album.name,
                         bandcamp_url_found |-> FALSE,
                         bandcamp_url_searched |-> FALSE,
                         bandcamp_url |-> ""]
        /\ DOMAIN state'.albums = DOMAIN state.albums \cup PlaylistKeys(playlist')
        /\ registered_album_count'
                = Cardinality(PlaylistKeys(playlist') \ DOMAIN state.albums)
      ]_vars

\* C8 witness: the imported playlist had two tracks of one new album, with
\* different artists, next to an album already stored; one album was
\* registered.
C8_Witness ==
    /\ pc = "resolve"
    /\ request = ""
    /\ Len(playlist) = 2
    /\ AlbumKey(playlist[1].album) = AlbumKey(playlist[2].album)
    /\ playlist[1].artists # playlist[2].artists
    /\ registered_album_count = 1
    /\ Len(state.order) = 2

\* C9: the import leaves every record already in the store as it is, and
\* registers nothing when every key of the playlist is already stored; no
\* step of a run removes a key from albums, and no step removes a key from
\* the albums of the persisted document.
C9_RecordsCreatedOnceNeverDeleted ==
    [][ /\ ImportStep =>
            /\ \A k \in DOMAIN state.albums :
                k \in DOMAIN state'.albums /\ state'.albums[k] = state.albums[k]
            /\ PlaylistKeys(playlist') \subseteq DOMAIN state.albums
                => (state' = state /\ registered_album_count' = 0)
        /\ RunStep => DOMAIN state.albums \subseteq DOMAIN state'.albums
        /\ DOMAIN Persisted.albums \subseteq DOMAIN Persisted'.albums
      ]_vars

\* C9 witness: a playlist whose album is already stored, found and
\* purchased, has been imported again and nothing was registered.
C9_Witness ==
    /\ pc = "resolve"
    /\ playlist # <<>>
    /\ registered_album_count = 0
    /\ state = Persisted
    /\ \E k \in PlaylistKeys(playlist) :
        Purchased(state, k) /\ state.albums[k].bandcamp_url_found

\* C10: print_stats on a store with no albums raises no error and the run
\* goes on to the statement after it.
C10_StatsOnEmptyStoreDoesNotRaise ==
    [][ (pc = "stats" /\ DOMAIN state.albums = {})
            => (error' = "" /\ pc' = After("stats", cli_args)) ]_vars

\* the network requests this run has issued
RequestsIssued == { i \in DOMAIN log : log[i].op \in RequestOps }

\* the environment variables a run with these flags reads
VarsNeeded(args) ==
    (IF args.playlist THEN EnvVars ELSE {})
        \cup (IF args.refresh_purchased THEN BandcampVars ELSE {})

\* C11: a run that needs an environment variable that is not set issues no
\* network request.
C11_MissingVariableFailsBeforeAnyRequest ==
    ~(VarsNeeded(cli_args) \subseteq environ) => RequestsIssued = {}

\* C12: state.json is written by dump_state only, as the step that ends a
\* run; while a run has not dumped, and when it has failed, state.json holds
\* the document the run loaded; and the next run loads what state.json
\* holds, so nothing a failed run registered, found or marked reaches it.
C12_PersistenceAllOrNothing ==
    [][ /\ file' # file
            => (pc = "dump" /\ pc' = "done" /\ file' = dump_state(state))
        /\ pc' \notin {"idle", "done"} => Persisted' = loaded'
        /\ pc = "idle" => (loaded' = Persisted /\ state' = loaded')
      ]_vars

\* C12 witness: a run that loaded a saved document registered an album,
\* marked an album purchased and then failed; state.json still holds the
\* document it loaded.
C12_Witness ==
    /\ pc = "failed"
    /\ file # NoFile
    /\ registered_album_count > 0
    /\ \E k \in Keys : Purchased(state, k) /\ ~Purchased(Persisted, k)
    /\ \E k \in Keys : Searched(state, k) /\ ~Searched(Persisted, k)

\* C13: whatever the flags, a run that no request error and no missing
\* environment variable ends, ends with dump_state writing the document in
\* memory.
C13_EveryRunEndsWithDump ==
    [][ (RunStep /\ pc' \in {"done", "failed"})
            => \/ error' \in {"RequestException", "KeyError"}
               \/ (pc = "dump" /\ pc' = "done" /\ file' = dump_state(state))
      ]_vars

UnpurchasedFound(document) ==
    { k \in DOMAIN document.albums :
        ~document.albums[k].purchased /\ document.albums[k].bandcamp_url_found }

\* C14: print_unpurchased prints one line per album that is not purchased
\* and found, that album's bandcamp_url, and no other line; it changes
\* neither the document nor state.json.
C14_UnpurchasedListing ==
    [][ pc = "unpurchased" =>
        /\ state' = state
        /\ file' = file
        /\ Len(printed') = Cardinality(UnpurchasedFound(state))
        /\ \A url \in Range(printed')
                \cup { state.albums[k].bandcamp_url : k \in DOMAIN state.albums } :
            Occurrences(printed', url)
                = Cardinality({ k \in UnpurchasedFound(state) :
                                    state.albums[k].bandcamp_url = url })
      ]_vars

\* C14 witness: of two stored albums one is found and purchased, the other
\* found and not purchased, and the listing printed one line.
C14_Witness ==
    /\ log # <<>>
    /\ log[Len(log)].op = "unpurchased"
    /\ Len(printed) = 1
    /\ Len(state.order) = 2
    /\ \E k \in DOMAIN state.albums :
        state.albums[k].purchased /\ state.albums[k].bandcamp_url_found

SearchRequests(k) ==
    Cardinality({ i \in DOMAIN log : log[i] = Event("search_request", k) })

\* C16: when the resolver loop of a run ends, every album in the store is
\* searched, and the run has issued one search request for each album that
\* was not searched in the document it loaded (new or not) and none for any
\* other album; no album of the persisted document is unsearched.
C16_ResolverSearchesEveryUnsearchedAlbum ==
    [][ /\ (pc = "resolve" /\ pc' \notin {"resolve", "failed"}) =>
            \A k \in Keys :
                /\ k \in DOMAIN state.albums => Searched(state, k)
                /\ SearchRequests(k) =
                    IF k \in DOMAIN state.albums /\ ~Searched(loaded, k)
                    THEN 1 ELSE 0
        /\ \A k \in DOMAIN Persisted'.albums : Searched(Persisted', k)
      ]_vars

\* C16 witness: a run that loaded one searched album imported another,
\* searched only that one, and saved.
C16_Witness ==
    /\ pc = "done"
    /\ cli_args.playlist
    /\ \E k \in Keys :
        /\ Searched(loaded, k) /\ SearchRequests(k) = 0
        /\ \E other \in Keys \ {k} :
            /\ other \notin DOMAIN loaded.albums
            /\ SearchRequests(other) = 1
            /\ Searched(Persisted, other)

IsPrefix(s, t) == Len(s) <= Len(t) /\ \A i \in DOMAIN s : s[i] = t[i]

\* the requests and steps of a run with these flags, search requests left out
ExpectedLog(args) ==
    LET refresh == <<Event("purchases_request", ""), Event("refresh", "")>>
    IN  <<Event("load", "")>>
        \o (IF args.playlist
            THEN <<Event("token_request", ""), Event("playlist_request", ""),
                   Event("import", "")>> \o refresh
            ELSE <<>>)
        \o (IF args.unpurchased THEN <<Event("unpurchased", "")>> ELSE <<>>)
        \o (IF args.stats THEN <<Event("stats", "")>> ELSE <<>>)
        \o (IF args.refresh_purchased THEN refresh ELSE <<>>)
        \o <<Event("save", "")>>

Did(op) == \E i \in DOMAIN log : log[i].op = op

\* C17: a run takes its steps in the order load, (-p) import, searches,
\* refresh, (-u) listing, (-s) stats, (-r) refresh, save; so without -p and
\* with -r the listing and the stats are those of the document as loaded,
\* and with -p and -r a run that saves has refreshed twice.
C17_FixedOrderOfSteps ==
    /\ pc # "idle" =>
        IsPrefix(SelectSeq(log, LAMBDA e : e.op # "search_request"),
                 ExpectedLog(cli_args))
    /\ \A i \in DOMAIN log :
        log[i].op = "search_request" =>
            /\ \E j \in 1..(i - 1) : log[j].op = "import"
            /\ \A j \in 1..(i - 1) : log[j].op # "purchases_request"
    /\ pc = "done" =>
        SelectSeq(log, LAMBDA e : e.op # "search_request") = ExpectedLog(cli_args)
    /\ (~cli_args.playlist /\ cli_args.refresh_purchased) =>
        /\ Did("unpurchased") => printed = UnpurchasedUrls(loaded)
        /\ Did("stats") => stats = StatsCounts(loaded)
    /\ (pc = "done" /\ cli_args.playlist /\ cli_args.refresh_purchased)
        => refreshes = 2

\* C17 witness: a run with -u -s -r and without -p has saved; its refresh
\* marked an album purchased whose URL the listing had printed.
C17_Witness ==
    /\ pc = "done"
    /\ ~cli_args.playlist
    /\ cli_args.unpurchased /\ cli_args.stats /\ cli_args.refresh_purchased
    /\ new_purchase_count > 0
    /\ printed # <<>>
    /\ printed # UnpurchasedUrls(state)
    /\ stats.purchased_count = 0

====
